---- MODULE Spec2Model ----
(***************************************************************************)
(* Model of ratings.c: a driver (main) spawns one search_worker thread per *)
(* keyword; a counting semaphore g_db_sem admits a bounded number of       *)
(* workers to the search, and g_print_mutex serialises what they write to  *)
(* stdout.  Program counters are named after the source line the thread    *)
(* is about to execute ("L128" = about to call sem_wait on line 128).      *)
(*                                                                         *)
(* Ratings are the float literals of the source in tenths (92.5f = 925);   *)
(* every rating of the program is a multiple of 0.5 and therefore exact,   *)
(* so the float comparisons of cmp_result_desc are integer comparisons.    *)
(* Text is a sequence of one-character strings without the final NUL.      *)
(***************************************************************************)
EXTENDS Integers, Sequences, FiniteSets, TLC

(* ------------------------------ bounds -------------------------------- *)
\* The program runs 8 workers over 5 permits.  The model keeps "more
\* workers than permits" and scales both down: the first NumWorkers
\* keywords of main's list are searched, over Capacity permits.
NumWorkers == 2

Capacity == 1

\* Largest catalog an arbitrary catalog provider hands over (SpecSearch);
\* it stays below MAX_MOVIES.
MaxCatalog == 3

(* ------------------------- program constants -------------------------- *)
MAX_DESC_LEN == 500

MAX_MOVIES == 30

MAX_RESULTS == 30

MAX_KEYWORD_LEN == 64

(* ------------------------- the built-in catalog ----------------------- *)
Desc1 ==
  <<
    "A"," ","y","o","u","n","g"," ","V","i","k","i","n","g"," ","b",
    "e","f","r","i","e","n","d","s"," ","a"," ","d","r","a","g","o",
    "n"," ","a","n","d"," ","c","h","a","n","g","e","s"," ","h","i",
    "s"," ","v","i","l","l","a","g","e"," ","f","o","r","e","v","e",
    "r","."
  >>

Desc2 ==
  <<
    "A"," ","k","n","i","g","h","t"," ","t","e","a","m","s"," ","u",
    "p"," ","w","i","t","h"," ","a"," ","d","r","a","g","o","n"," ",
    "t","o"," ","o","v","e","r","t","h","r","o","w"," ","a"," ","t",
    "y","r","a","n","t"," ","k","i","n","g","."
  >>

Desc3 ==
  <<
    "A"," ","g","i","r","l"," ","e","n","t","e","r","s"," ","a"," ",
    "s","p","i","r","i","t"," ","w","o","r","l","d"," ","f","i","l",
    "l","e","d"," ","w","i","t","h"," ","m","a","g","i","c",","," ",
    "m","y","s","t","e","r","y",","," ","a","n","d"," ","c","o","u",
    "r","a","g","e","."
  >>

Desc4 ==
  <<
    "A"," ","s","p","a","c","e"," ","m","i","s","s","i","o","n"," ",
    "s","e","a","r","c","h","e","s"," ","f","o","r"," ","a"," ","n",
    "e","w"," ","h","o","m","e"," ","f","o","r"," ","h","u","m","a",
    "n","i","t","y"," ","b","e","y","o","n","d"," ","E","a","r","t",
    "h","."
  >>

Desc5 ==
  <<
    "A"," ","c","r","i","m","e"," ","s","a","g","a"," ","w","h","e",
    "r","e"," ","G","o","t","h","a","m"," ","f","a","c","e","s"," ",
    "c","h","a","o","s"," ","a","n","d"," ","a"," ","v","i","l","l",
    "a","i","n"," ","t","e","s","t","s"," ","t","h","e"," ","h","e",
    "r","o","."
  >>

Desc6 ==
  <<
    "A"," ","t","h","i","e","f"," ","e","n","t","e","r","s"," ","d",
    "r","e","a","m","s"," ","t","o"," ","p","l","a","n","t"," ","a",
    "n"," ","i","d","e","a",";"," ","r","e","a","l","i","t","y"," ",
    "b","e","c","o","m","e","s"," ","u","n","c","e","r","t","a","i",
    "n","."
  >>

Desc7 ==
  <<
    "A","n"," ","e","p","i","c"," ","w","a","r"," ","a","g","a","i",
    "n","s","t"," ","d","a","r","k","n","e","s","s"," ","w","i","t",
    "h"," ","m","a","g","i","c",","," ","c","o","u","r","a","g","e",
    ","," ","a","n","d"," ","s","a","c","r","i","f","i","c","e","."
  >>

Desc8 ==
  <<
    "M","u","l","t","i","p","l","e"," ","s","t","o","r","i","e","s",
    " ","o","f"," ","l","o","v","e"," ","u","n","f","o","l","d"," ",
    "d","u","r","i","n","g"," ","t","h","e"," ","h","o","l","i","d",
    "a","y"," ","s","e","a","s","o","n","."
  >>

Desc9 ==
  <<
    "A"," ","b","o","y"," ","a","n","d"," ","h","i","s"," ","h","o",
    "r","s","e"," ","a","r","e"," ","s","e","p","a","r","a","t","e",
    "d"," ","b","y"," ","w","a","r"," ","a","n","d"," ","s","t","r",
    "u","g","g","l","e"," ","t","o"," ","r","e","u","n","i","t","e",
    "."
  >>

Desc10 ==
  <<
    "A"," ","j","o","u","r","n","a","l","i","s","t"," ","a","n","d",
    " ","h","a","c","k","e","r"," ","i","n","v","e","s","t","i","g",
    "a","t","e"," ","a"," ","m","y","s","t","e","r","y"," ","w","i",
    "t","h"," ","d","a","r","k"," ","s","e","c","r","e","t","s","."
  >>

\* g_movies[0 .. g_movie_count-1] after load_movies_hardcoded, 1-based here.
load_movies_hardcoded ==
  <<
     [title |-> "How to Train Your Dragon", director |-> "Chris Sanders",
      release_date |-> "2010-03-26", popularity_rating |-> 925,
      description |-> Desc1],
     [title |-> "Dragonheart", director |-> "Rob Cohen",
      release_date |-> "1996-05-31", popularity_rating |-> 710,
      description |-> Desc2],
     [title |-> "Spirited Away", director |-> "Hayao Miyazaki",
      release_date |-> "2001-07-20", popularity_rating |-> 970,
      description |-> Desc3],
     [title |-> "Interstellar", director |-> "Christopher Nolan",
      release_date |-> "2014-11-07", popularity_rating |-> 890,
      description |-> Desc4],
     [title |-> "The Dark Knight", director |-> "Christopher Nolan",
      release_date |-> "2008-07-18", popularity_rating |-> 940,
      description |-> Desc5],
     [title |-> "Inception", director |-> "Christopher Nolan",
      release_date |-> "2010-07-16", popularity_rating |-> 910,
      description |-> Desc6],
     [title |-> "The Lord of the Rings", director |-> "Peter Jackson",
      release_date |-> "2001-12-19", popularity_rating |-> 960,
      description |-> Desc7],
     [title |-> "Love Actually", director |-> "Richard Curtis",
      release_date |-> "2003-11-14", popularity_rating |-> 780,
      description |-> Desc8],
     [title |-> "War Horse", director |-> "Steven Spielberg",
      release_date |-> "2011-12-25", popularity_rating |-> 750,
      description |-> Desc9],
     [title |-> "The Girl with the Dragon Tattoo", director |-> "David Fincher",
      release_date |-> "2011-12-21", popularity_rating |-> 860,
      description |-> Desc10]
  >>

\* const char *keywords[] of main.
main_keywords ==
  <<
     <<"d","r","a","g","o","n">>,
     <<"m","a","g","i","c">>,
     <<"w","a","r">>,
     <<"l","o","v","e">>,
     <<"s","p","a","c","e">>,
     <<"c","r","i","m","e">>,
     <<"d","r","e","a","m">>,
     <<"m","y","s","t","e","r","y">>
  >>

(* --------------------------- pure functions --------------------------- *)
UpperCase ==
  <<"A","B","C","D","E","F","G","H","I","J","K","L","M",
    "N","O","P","Q","R","S","T","U","V","W","X","Y","Z">>

LowerCase ==
  <<"a","b","c","d","e","f","g","h","i","j","k","l","m",
    "n","o","p","q","r","s","t","u","v","w","x","y","z">>

UpperSet == {UpperCase[k] : k \in DOMAIN UpperCase}

LowerOf ==
  [c \in UpperSet |-> LowerCase[CHOOSE k \in DOMAIN UpperCase : UpperCase[k] = c]]

\* tolower of the C locale.
tolower(c) == IF c \in UpperSet THEN LowerOf[c] ELSE c

\* The bounded copy without tolower.
copy_without_lowering(dst_sz, src) ==
  SubSeq(src, 1, IF Len(src) < dst_sz - 1 THEN Len(src) ELSE dst_sz - 1)

\* The copy that fills all dst_sz places, leaving none for the NUL.
to_lower_copy_full_buffer(dst_sz, src) ==
  [i \in 1..(IF Len(src) < dst_sz THEN Len(src) ELSE dst_sz) |-> tolower(src[i])]

\* The loop copies while i + 1 < dst_sz and src[i] is not NUL: at most
\* dst_sz - 1 characters, each lowered.
to_lower_copy(dst_sz, src) ==
  LET n == IF Len(src) < dst_sz - 1 THEN Len(src) ELSE dst_sz - 1
  IN  [i \in 1..n |-> tolower(src[i])]

\* strstr taken for a comparison of the start of the text only.
strstr_at_start(haystack, needle) ==
  /\ Len(needle) <= Len(haystack)
  /\ \A j \in 1..Len(needle) : haystack[j] = needle[j]

\* strstr(haystack, needle) != NULL.  An empty needle is found in any text.
strstr(haystack, needle) ==
  \E k \in 0..(Len(haystack) - Len(needle)) :
     \A j \in 1..Len(needle) : haystack[k + j] = needle[j]

\* contains_keyword_ci without the early return for an empty keyword.
contains_keyword_ci_no_guard(text, keyword) ==
  \E k \in 0..(Len(to_lower_copy(MAX_DESC_LEN, text))
                - Len(to_lower_copy(MAX_KEYWORD_LEN, keyword))) :
     \A j \in 1..Len(to_lower_copy(MAX_KEYWORD_LEN, keyword)) :
        to_lower_copy(MAX_DESC_LEN, text)[k + j]
          = to_lower_copy(MAX_KEYWORD_LEN, keyword)[j]

\* text and keyword are never NULL in this program (arrays of the catalog
\* and of WorkerArgs), so the first early return is not taken.
contains_keyword_ci(text, keyword) ==
  IF keyword = <<>>
    THEN FALSE
    ELSE strstr(to_lower_copy(MAX_DESC_LEN, text),
                to_lower_copy(MAX_KEYWORD_LEN, keyword))

\* The comparator with its two results exchanged: ascending.
cmp_result_asc(ra, rb) ==
  IF ra.rating < rb.rating THEN -1
  ELSE IF ra.rating > rb.rating THEN 1
  ELSE 0

cmp_result_desc(ra, rb) ==
  IF ra.rating < rb.rating THEN 1
  ELSE IF ra.rating > rb.rating THEN -1
  ELSE 0

\* The scan loop without the test res_count < MAX_RESULTS.
RECURSIVE ScanFromNoLimit(_, _, _, _)
ScanFromNoLimit(movies, keyword, i, res) ==
  IF i > Len(movies) THEN res
  ELSE IF contains_keyword_ci(movies[i].description, keyword)
    THEN ScanFromNoLimit(movies, keyword, i + 1,
                         Append(res, [idx |-> i - 1,
                                      rating |-> movies[i].popularity_rating]))
    ELSE ScanFromNoLimit(movies, keyword, i + 1, res)

\* The scan loop of search_movies_and_print from catalog position i on;
\* idx is the 0-based index the C code stores.
RECURSIVE ScanFrom(_, _, _, _)
ScanFrom(movies, keyword, i, res) ==
  IF i > Len(movies) THEN res
  ELSE IF contains_keyword_ci(movies[i].description, keyword)
          /\ Len(res) < MAX_RESULTS
    THEN ScanFrom(movies, keyword, i + 1,
                  Append(res, [idx |-> i - 1,
                               rating |-> movies[i].popularity_rating]))
    ELSE ScanFrom(movies, keyword, i + 1, res)

\* qsort with cmp_result_desc: the C library fixes neither the algorithm
\* nor the order of elements that compare equal, so every arrangement of
\* the array that is sorted for the comparator is a possible outcome.
qsort(arr) ==
  LET n == Len(arr)
      Perms == {p \in [1..n -> 1..n] : \A a, b \in 1..n : a # b => p[a] # p[b]}
  IN  {[k \in 1..n |-> arr[p[k]]] : p \in
         {q \in Perms : \A a, b \in 1..n :
             a < b => cmp_result_desc(arr[q[a]], arr[q[b]]) <= 0}}

(* ------------------------------- state -------------------------------- *)
VARIABLES
  g_movies,       \* the catalog (g_movie_count is its length)
  keywords,       \* the keyword list the driver runs, one worker each
  g_db_sem,       \* value of the counting semaphore
  sem_state,      \* "uninit", "ready", "destroyed"
  g_print_mutex,  \* 0 when free, else the worker that holds it
  mutex_state,    \* "ready", "destroyed"
  main_pc,        \* where main is
  main_i,         \* loop variable i of main, 1-based
  exit_status,    \* main's return value once main_pc = "exited"
  args,           \* args[i] of main, filled as the workers are created
  pc,             \* where each worker is
  results,        \* results[0 .. res_count-1] of each worker's search
  print_i,        \* loop variable i of the print loop, 1-based
  stdout          \* the lines written to standard output, in order

vars == <<g_movies, keywords, g_db_sem, sem_state, g_print_mutex, mutex_state,
          main_pc, main_i, exit_status, args, pc, results, print_i, stdout>>

N == Len(keywords)

Workers == 1..N

\* The driver thread, as the writer of a line.
MainThread == 0

\* The process is gone once main has returned: no thread runs any more.
Running == main_pc # "exited"

\* printf by thread t: one more line at the end of stdout.
printf(t, line) == stdout' = Append(stdout, [by |-> t] @@ line)

\* Between the return of sem_wait and the call of sem_post.
HoldsPermit(w) ==
  pc[w] \in {"L130", "L131", "L132", "L135", "L138", "L92", "L94", "L95",
             "L96", "L97", "L99", "L109", "L110", "L140", "L141", "L142",
             "L144"}

InitFor(movies, kws) ==
  /\ g_movies = movies
  /\ keywords = kws
  /\ g_db_sem = 0
  /\ sem_state = "uninit"
  /\ g_print_mutex = 0
  /\ mutex_state = "ready"
  /\ main_pc = "L199"
  /\ main_i = 1
  /\ exit_status = 0
  /\ args = <<>>
  /\ pc = [w \in 1..Len(kws) |-> "NotCreated"]
  /\ results = [w \in 1..Len(kws) |-> <<>>]
  /\ print_i = [w \in 1..Len(kws) |-> 1]
  /\ stdout = <<>>

\* main after load_movies_hardcoded, about to call sem_init.
Init == InitFor(load_movies_hardcoded, SubSeq(main_keywords, 1, NumWorkers))

(* ------------- any catalog, any keyword (SpecSearch) ------------------ *)
\* The catalog comes from a loader and the keyword from a request; the
\* search is checked over every catalog of at most MaxCatalog records
\* built from these descriptions and ratings, for each of these keywords.
SampleDescriptions ==
  { <<>>, <<"a","B">>, <<"b","A","b">>, <<"c","c">> }

SampleRatings == {710, 925}

SampleKeywords ==
  { <<>>, <<"A">>, <<"a","b">>, <<"B","a","B","a">> }

\* The title that goes with a sample description: the two records whose
\* description matches no sample keyword carry sample keywords in their
\* title.
SampleTitle(d) ==
  IF d = <<>> THEN <<"a","b">>
  ELSE IF d = <<"c","c">> THEN <<"B","a","B","a">>
  ELSE <<"T">>

\* Every sample record has a director whose name holds sample keywords.
SampleRecords ==
  { [title |-> SampleTitle(d), director |-> <<"a","B">>, release_date |-> "R",
     popularity_rating |-> r, description |-> d] :
       r \in SampleRatings, d \in SampleDescriptions }

\* g_movies holds at most MAX_MOVIES records.
Catalogs ==
  UNION { [1..n -> SampleRecords] : n \in {m \in 0..MaxCatalog : m <= MAX_MOVIES} }

(* ------------------ over-length text (SpecLong) ---------------------- *)
Rep(c, n) == [k \in 1..n |-> c]

\* Descriptions of MAX_DESC_LEN - 1 and of MAX_DESC_LEN characters that end
\* in "aB", and one of MAX_KEYWORD_LEN - 1 characters.  The second is longer
\* than Movie.description can hold: it stands for the over-length text that
\* the bound of to_lower_copy is written for.
LongCatalog ==
  << [title |-> <<"T">>, director |-> <<"D">>, release_date |-> "R",
      popularity_rating |-> 710,
      description |-> Rep("x", MAX_DESC_LEN - 3) \o <<"a","B">>],
     [title |-> <<"T">>, director |-> <<"D">>, release_date |-> "R",
      popularity_rating |-> 925,
      description |-> Rep("x", MAX_DESC_LEN - 2) \o <<"a","B">>],
     [title |-> <<"T">>, director |-> <<"D">>, release_date |-> "R",
      popularity_rating |-> 860,
      description |-> Rep("c", MAX_KEYWORD_LEN - 1)] >>

\* Keywords of main's list: two short ones and one of MAX_KEYWORD_LEN
\* characters, one more than WorkerArgs.keyword holds.
LongKeywords ==
  { <<"a","b">>, <<"B">>, Rep("C", MAX_KEYWORD_LEN - 1) \o <<"a">> }

\* Two requests against the catalog of long descriptions.
InitLong ==
  \E k1 \in LongKeywords, k2 \in LongKeywords :
     InitFor(LongCatalog, <<k1, k2>>)

\* One request against an arbitrary catalog.
InitSearch ==
  \E movies \in Catalogs, kw \in SampleKeywords : InitFor(movies, <<kw>>)

(* ------------------------- the print mutex ---------------------------- *)
\* A lock that never waits for the holder.
lock_without_waiting(w, at, next) ==
  /\ Running
  /\ pc[w] = at
  /\ g_print_mutex' = w
  /\ pc' = [pc EXCEPT ![w] = next]
  /\ UNCHANGED <<g_movies, keywords, g_db_sem, sem_state, mutex_state, main_pc,
                 main_i, exit_status, args, results, print_i, stdout>>

\* pthread_mutex_lock(&g_print_mutex) by worker w at label `at`: blocks
\* while another thread holds the mutex.
pthread_mutex_lock(w, at, next) ==
  /\ Running
  /\ pc[w] = at
  /\ g_print_mutex = 0
  /\ g_print_mutex' = w
  /\ pc' = [pc EXCEPT ![w] = next]
  /\ UNCHANGED <<g_movies, keywords, g_db_sem, sem_state, mutex_state, main_pc,
                 main_i, exit_status, args, results, print_i, stdout>>

\* The unlock that leaves the mutex with the caller.
unlock_keeps_mutex(w, at, next) ==
  /\ Running
  /\ pc[w] = at
  /\ pc' = [pc EXCEPT ![w] = next]
  /\ UNCHANGED <<g_movies, keywords, g_db_sem, sem_state, g_print_mutex,
                 mutex_state, main_pc, main_i, exit_status, args, results,
                 print_i, stdout>>

pthread_mutex_unlock(w, at, next) ==
  /\ Running
  /\ pc[w] = at
  /\ g_print_mutex' = 0
  /\ pc' = [pc EXCEPT ![w] = next]
  /\ UNCHANGED <<g_movies, keywords, g_db_sem, sem_state, mutex_state, main_pc,
                 main_i, exit_status, args, results, print_i, stdout>>

\* One printf of worker w at label `at`.
WorkerPrints(w, at, next, line) ==
  /\ Running
  /\ pc[w] = at
  /\ printf(w, line)
  /\ pc' = [pc EXCEPT ![w] = next]
  /\ UNCHANGED <<g_movies, keywords, g_db_sem, sem_state, g_print_mutex,
                 mutex_state, main_pc, main_i, exit_status, args, results,
                 print_i>>

(* --------------------------- search_worker ---------------------------- *)
WaitingLock(w) == pthread_mutex_lock(w, "L123", "L124")

LogWaiting(w) ==
  WorkerPrints(w, "L124", "L125",
               [kind |-> "waiting", worker_id |-> args[w].worker_id,
                keyword |-> args[w].keyword])

\* The worker going on to line 130 without calling sem_wait.
WaitingUnlockSkipsWait(w) == pthread_mutex_unlock(w, "L125", "L130")

WaitingUnlock(w) == pthread_mutex_unlock(w, "L125", "L128")

\* A wait that goes on when no permit is left (sem_trywait, unchecked).
SemWaitNoBlock(w) ==
  /\ Running
  /\ pc[w] = "L128"
  /\ g_db_sem' = IF g_db_sem > 0 THEN g_db_sem - 1 ELSE 0
  /\ pc' = [pc EXCEPT ![w] = "L130"]
  /\ UNCHANGED <<g_movies, keywords, sem_state, g_print_mutex, mutex_state,
                 main_pc, main_i, exit_status, args, results, print_i, stdout>>

\* sem_wait(&g_db_sem): blocks while the value is 0, then takes a permit.
SemWait(w) ==
  /\ Running
  /\ pc[w] = "L128"
  /\ g_db_sem > 0
  /\ g_db_sem' = g_db_sem - 1
  /\ pc' = [pc EXCEPT ![w] = "L130"]
  /\ UNCHANGED <<g_movies, keywords, sem_state, g_print_mutex, mutex_state,
                 main_pc, main_i, exit_status, args, results, print_i, stdout>>

AcquiredLock(w) == pthread_mutex_lock(w, "L130", "L131")

LogAcquired(w) ==
  WorkerPrints(w, "L131", "L132",
               [kind |-> "acquired", worker_id |-> args[w].worker_id])

AcquiredUnlock(w) == pthread_mutex_unlock(w, "L132", "L135")

\* usleep(200000): the pacing delay.
Usleep(w) ==
  /\ Running
  /\ pc[w] = "L135"
  /\ pc' = [pc EXCEPT ![w] = "L138"]
  /\ UNCHANGED <<g_movies, keywords, g_db_sem, sem_state, g_print_mutex,
                 mutex_state, main_pc, main_i, exit_status, args, results,
                 print_i, stdout>>

(* ----------------------- search_movies_and_print ---------------------- *)
\* The scans of the built-in catalog for the keywords of main, computed
\* once: neither the catalog nor a keyword changes during a run.
BuiltinMatches ==
  [k \in 1..NumWorkers |->
     ScanFrom(load_movies_hardcoded, main_keywords[k], 1, <<>>)]

\* The loop of lines 78-86 run on this catalog for this keyword: the value
\* of ScanFrom(movies, keyword, 1, <<>>), looked up when it is one of the
\* built-in scans.
scan_movies(movies, keyword) ==
  IF /\ movies = load_movies_hardcoded
     /\ \E k \in 1..NumWorkers : main_keywords[k] = keyword
  THEN BuiltinMatches[CHOOSE k \in 1..NumWorkers : main_keywords[k] = keyword]
  ELSE ScanFrom(movies, keyword, 1, <<>>)

\* The search done only while nobody holds the print mutex.
SearchNeedsPrintMutex(w) ==
  /\ Running
  /\ pc[w] = "L138"
  /\ g_print_mutex = 0
  /\ \E sorted \in qsort(scan_movies(g_movies, args[w].keyword)) :
        results' = [results EXCEPT ![w] = sorted]
  /\ pc' = [pc EXCEPT ![w] = "L92"]
  /\ UNCHANGED <<g_movies, keywords, g_db_sem, sem_state, g_print_mutex,
                 mutex_state, main_pc, main_i, exit_status, args, print_i,
                 stdout>>

\* Lines 74-89: scan the catalog, then qsort the matches.  Everything it
\* writes is local to the thread and the catalog is read-only.
Search(w) ==
  /\ Running
  /\ pc[w] = "L138"
  /\ \E sorted \in qsort(scan_movies(g_movies, args[w].keyword)) :
        results' = [results EXCEPT ![w] = sorted]
  /\ pc' = [pc EXCEPT ![w] = "L92"]
  /\ UNCHANGED <<g_movies, keywords, g_db_sem, sem_state, g_print_mutex,
                 mutex_state, main_pc, main_i, exit_status, args, print_i,
                 stdout>>

ReportLock(w) == pthread_mutex_lock(w, "L92", "L94")

\* printf of line 94: an empty line and the opening rule.
PrintOpen(w) == WorkerPrints(w, "L94", "L95", [kind |-> "open"])

PrintHeader(w) ==
  WorkerPrints(w, "L95", "L96",
               [kind |-> "header", keyword |-> args[w].keyword,
                res_count |-> Len(results[w])])

PrintSortedBy(w) == WorkerPrints(w, "L96", "L97", [kind |-> "sortedby"])

PrintDashes(w) == WorkerPrints(w, "L97", "L99", [kind |-> "dashes"])

\* The line of line 100 without the test of res_count.
PrintNoMatchesAlways(w) ==
  WorkerPrints(w, "L99", "L109", [kind |-> "nomatch"])

\* res_count == 0: the single line of line 100.
PrintNoMatches(w) ==
  /\ Len(results[w]) = 0
  /\ WorkerPrints(w, "L99", "L109", [kind |-> "nomatch"])

\* One iteration of the loop of lines 102-106.
PrintMatch(w) ==
  /\ Running
  /\ pc[w] = "L99"
  /\ print_i[w] <= Len(results[w])
  /\ LET m == g_movies[results[w][print_i[w]].idx + 1]
     IN  printf(w, [kind |-> "match", pos |-> print_i[w], title |-> m.title,
                    director |-> m.director, release_date |-> m.release_date,
                    rating |-> m.popularity_rating])
  /\ print_i' = [print_i EXCEPT ![w] = print_i[w] + 1]
  /\ pc' = [pc EXCEPT ![w] = IF print_i[w] = Len(results[w])
                               THEN "L109" ELSE "L99"]
  /\ UNCHANGED <<g_movies, keywords, g_db_sem, sem_state, g_print_mutex,
                 mutex_state, main_pc, main_i, exit_status, args, results>>

PrintClose(w) == WorkerPrints(w, "L109", "L110", [kind |-> "close"])

ReportUnlock(w) == pthread_mutex_unlock(w, "L110", "L140")

(* ---------------------- search_worker, continued ---------------------- *)
FinishedLock(w) == pthread_mutex_lock(w, "L140", "L141")

LogFinished(w) ==
  WorkerPrints(w, "L141", "L142",
               [kind |-> "finished", worker_id |-> args[w].worker_id])

\* The worker returning after the finished line, without sem_post.
FinishedUnlockReturns(w) == pthread_mutex_unlock(w, "L142", "Done")

FinishedUnlock(w) == pthread_mutex_unlock(w, "L142", "L144")

\* The permit given back twice.
\* The return that never gives the permit back.
SemPostForgets(w) ==
  /\ Running
  /\ pc[w] = "L144"
  /\ pc' = [pc EXCEPT ![w] = "Done"]
  /\ UNCHANGED <<g_movies, keywords, g_db_sem, sem_state, g_print_mutex,
                 mutex_state, main_pc, main_i, exit_status, args, results,
                 print_i, stdout>>

SemPostTwice(w) ==
  /\ Running
  /\ pc[w] = "L144"
  /\ g_db_sem' = g_db_sem + 2
  /\ pc' = [pc EXCEPT ![w] = "Done"]
  /\ UNCHANGED <<g_movies, keywords, sem_state, g_print_mutex, mutex_state,
                 main_pc, main_i, exit_status, args, results, print_i, stdout>>

\* sem_post(&g_db_sem), then return NULL.
SemPost(w) ==
  /\ Running
  /\ pc[w] = "L144"
  /\ g_db_sem' = g_db_sem + 1
  /\ pc' = [pc EXCEPT ![w] = "Done"]
  /\ UNCHANGED <<g_movies, keywords, sem_state, g_print_mutex, mutex_state,
                 main_pc, main_i, exit_status, args, results, print_i, stdout>>

search_worker(w) ==
  \/ WaitingLock(w) \/ LogWaiting(w) \/ WaitingUnlock(w)
  \/ SemWait(w)
  \/ AcquiredLock(w) \/ LogAcquired(w) \/ AcquiredUnlock(w)
  \/ Usleep(w)
  \/ Search(w)
  \/ ReportLock(w) \/ PrintOpen(w) \/ PrintHeader(w) \/ PrintSortedBy(w)
  \/ PrintDashes(w) \/ PrintNoMatches(w) \/ PrintMatch(w) \/ PrintClose(w)
  \/ ReportUnlock(w)
  \/ FinishedLock(w) \/ LogFinished(w) \/ FinishedUnlock(w)
  \/ SemPost(w)

(* -------------------------------- main -------------------------------- *)
\* return from main: the process exits and takes every thread with it.
Return(status) ==
  /\ main_pc' = "exited"
  /\ exit_status' = status

\* sem_init(&g_db_sem, 0, 5) succeeds.
\* The sem_init that grants one permit too many.
SemInitOneMore ==
  /\ main_pc = "L199"
  /\ g_db_sem' = Capacity + 1
  /\ sem_state' = "ready"
  /\ main_pc' = "L213"
  /\ UNCHANGED <<g_movies, keywords, g_print_mutex, mutex_state, main_i,
                 exit_status, args, pc, results, print_i, stdout>>

SemInit ==
  /\ main_pc = "L199"
  /\ g_db_sem' = Capacity
  /\ sem_state' = "ready"
  /\ main_pc' = "L213"
  /\ UNCHANGED <<g_movies, keywords, g_print_mutex, mutex_state, main_i,
                 exit_status, args, pc, results, print_i, stdout>>

\* sem_init fails: perror (on stderr) and return 1.
SemInitFails ==
  /\ main_pc = "L199"
  /\ Return(1)
  /\ UNCHANGED <<g_movies, keywords, g_db_sem, sem_state, g_print_mutex,
                 mutex_state, main_i, args, pc, results, print_i, stdout>>

\* strncpy(dst, src, n) followed by dst[n] = NUL.
strncpy(src, n) == SubSeq(src, 1, IF Len(src) < n THEN Len(src) ELSE n)

\* Lines 214-216: args[i] of the loop.
WorkerArgs(i) ==
  [worker_id |-> i, keyword |-> strncpy(keywords[i], MAX_KEYWORD_LEN - 1)]

\* One iteration of the loop of lines 213-222 in which pthread_create
\* succeeds: the new thread stands at the start of search_worker.
CreateWorker ==
  /\ main_pc = "L213"
  /\ args' = Append(args, WorkerArgs(main_i))
  /\ pc' = [pc EXCEPT ![main_i] = "L123"]
  /\ IF main_i = N
       THEN main_pc' = "L224" /\ main_i' = 1
       ELSE main_pc' = "L213" /\ main_i' = main_i + 1
  /\ UNCHANGED <<g_movies, keywords, g_db_sem, sem_state, g_print_mutex,
                 mutex_state, exit_status, results, print_i, stdout>>

\* pthread_create fails: perror (on stderr) and return 1.
CreateFails ==
  /\ main_pc = "L213"
  /\ args' = Append(args, WorkerArgs(main_i))
  /\ Return(1)
  /\ UNCHANGED <<g_movies, keywords, g_db_sem, sem_state, g_print_mutex,
                 mutex_state, main_i, pc, results, print_i, stdout>>

\* A join that returns at once (a detached or never-joined thread).
JoinWithoutWaiting ==
  /\ main_pc = "L224"
  /\ IF main_i = N
       THEN main_pc' = "L228" /\ main_i' = main_i
       ELSE main_pc' = "L224" /\ main_i' = main_i + 1
  /\ UNCHANGED <<g_movies, keywords, g_db_sem, sem_state, g_print_mutex,
                 mutex_state, exit_status, args, pc, results, print_i, stdout>>

\* pthread_join(threads[i], NULL): returns once worker i has returned.
Join ==
  /\ main_pc = "L224"
  /\ pc[main_i] = "Done"
  /\ IF main_i = N
       THEN main_pc' = "L228" /\ main_i' = main_i
       ELSE main_pc' = "L224" /\ main_i' = main_i + 1
  /\ UNCHANGED <<g_movies, keywords, g_db_sem, sem_state, g_print_mutex,
                 mutex_state, exit_status, args, pc, results, print_i, stdout>>

SemDestroy ==
  /\ main_pc = "L228"
  /\ sem_state' = "destroyed"
  /\ main_pc' = "L229"
  /\ UNCHANGED <<g_movies, keywords, g_db_sem, g_print_mutex, mutex_state,
                 main_i, exit_status, args, pc, results, print_i, stdout>>

MutexDestroy ==
  /\ main_pc = "L229"
  /\ mutex_state' = "destroyed"
  /\ main_pc' = "L231"
  /\ UNCHANGED <<g_movies, keywords, g_db_sem, sem_state, g_print_mutex,
                 main_i, exit_status, args, pc, results, print_i, stdout>>

PrintAllFinished ==
  /\ main_pc = "L231"
  /\ printf(MainThread, [kind |-> "allfinished"])
  /\ main_pc' = "L232"
  /\ UNCHANGED <<g_movies, keywords, g_db_sem, sem_state, g_print_mutex,
                 mutex_state, main_i, exit_status, args, pc, results, print_i>>

Return0 ==
  /\ main_pc = "L232"
  /\ Return(0)
  /\ UNCHANGED <<g_movies, keywords, g_db_sem, sem_state, g_print_mutex,
                 mutex_state, main_i, args, pc, results, print_i, stdout>>

main ==
  \/ SemInit \/ SemInitFails
  \/ CreateWorker \/ CreateFails
  \/ Join
  \/ SemDestroy \/ MutexDestroy \/ PrintAllFinished \/ Return0

Next == main \/ \E w \in Workers : search_worker(w)

Spec == Init /\ [][Next]_vars

SpecSearch == InitSearch /\ [][Next]_vars

SpecLong == InitLong /\ [][Next]_vars

\* The scheduler runs every thread that can run; a thread blocked in
\* sem_wait or pthread_mutex_lock goes on once it stays able to.
FairSpec ==
  /\ Spec
  /\ WF_vars(main)
  /\ \A w \in 1..NumWorkers : WF_vars(search_worker(w))

(* ============================== claims ================================ *)
AllDone == \A w \in Workers : pc[w] = "Done"

Holders == {w \in Workers : HoldsPermit(w)}

BlockKinds ==
  {"open", "header", "sortedby", "dashes", "nomatch", "match", "close"}

IsBlockLine(l) == l.kind \in BlockKinds

\* The lines of worker w's report block written so far, in order.
Block(w) == SelectSeq(stdout, LAMBDA l : l.by = w /\ IsBlockLine(l))

BlockClosed(w) == \E k \in DOMAIN stdout :
                     stdout[k].by = w /\ stdout[k].kind = "close"

\* C1: at no time do more than Capacity workers stand between the return
\* of their sem_wait and their sem_post, although there are more workers
\* than permits.
C1_AtMostCapacityInside == Cardinality(Holders) <= Capacity

\* Every permit is out and a further worker stands at sem_wait.
C1_Witness ==
  /\ N > Capacity
  /\ Cardinality(Holders) = Capacity
  /\ \E w \in Workers : pc[w] = "L128"

C3_NoPermitLeak ==
  (AllDone /\ sem_state = "ready") => g_db_sem = Capacity

\* Every worker has taken and returned a permit; main has joined them all.
C3_Witness ==
  /\ AllDone
  /\ main_pc = "L228"
  /\ sem_state = "ready"
  /\ \A w \in Workers :
        \E k \in DOMAIN stdout :
           stdout[k].by = w /\ stdout[k].kind = "finished"

\* C4: under fair scheduling a worker that calls sem_wait is eventually
\* granted a permit.
C4_WaiterEventuallyAdmitted ==
  \A w \in 1..NumWorkers : (pc[w] = "L128") ~> HoldsPermit(w)

\* C5: no reachable state aborts an in-flight search: the process never
\* ends while a worker that was admitted has not yet returned its permit.
C5_NoAbortInFlight ==
  ~ (main_pc = "exited" /\ \E w \in Workers : HoldsPermit(w))

\* The body lines of worker w's block written so far, in order.
MatchLines(w) == SelectSeq(stdout, LAMBDA l : l.by = w /\ l.kind = "match")

\* C6: whatever the catalog and the keyword, the ratings of the body lines
\* of a report never increase from one line to the next.
C6_RatingsNeverIncrease ==
  \A w \in Workers :
     \A k \in 1..(Len(MatchLines(w)) - 1) :
        MatchLines(w)[k].rating >= MatchLines(w)[k + 1].rating

\* A finished report whose first two lines are records that the catalog
\* holds in the opposite order, with different ratings.
C6_Witness ==
  \E w \in Workers :
     /\ BlockClosed(w)
     /\ Len(MatchLines(w)) >= 2
     /\ MatchLines(w)[1].rating > MatchLines(w)[2].rating
     /\ results[w][1].idx > results[w][2].idx

Dragon == <<"d","r","a","g","o","n">>

\* The header line of worker w's block (the second line of the block).
HeaderLine(w) == Block(w)[2]

Titles(w) == [k \in DOMAIN MatchLines(w) |-> MatchLines(w)[k].title]

Ratings(w) == [k \in DOMAIN MatchLines(w) |-> MatchLines(w)[k].rating]

SearchedDragon(w) ==
  /\ w <= Len(args)
  /\ args[w].keyword = Dragon
  /\ BlockClosed(w)

\* C7 as stated: with the built-in catalog the report for "dragon" lists
\* three records, rated 92.5, 86.0 and 71.0 in this order, Matches: 3.
C7_DragonYieldsThree ==
  \A w \in Workers :
     SearchedDragon(w) =>
       /\ HeaderLine(w).res_count = 3
       /\ Titles(w) = <<"How to Train Your Dragon",
                        "The Girl with the Dragon Tattoo", "Dragonheart">>
       /\ Ratings(w) = <<925, 860, 710>>

\* C7 as amended: with the built-in catalog the report for "dragon" lists
\* exactly the two records whose description holds the word, "How to Train
\* Your Dragon" (92.5) and then "Dragonheart" (71.0), Matches: 2.
C7_DragonYieldsTwo ==
  \A w \in Workers :
     SearchedDragon(w) =>
       /\ HeaderLine(w).res_count = 2
       /\ Titles(w) = <<"How to Train Your Dragon", "Dragonheart">>
       /\ Ratings(w) = <<925, 710>>

\* The report for "dragon" is complete on stdout.
C7_Witness == \E w \in Workers : SearchedDragon(w)

\* C8: no record matches the empty keyword: a search for it collects
\* nothing and reports zero matches, whatever the catalog holds.
C8_EmptyKeywordMatchesNothing ==
  /\ \A k \in DOMAIN g_movies :
        ~ contains_keyword_ci(g_movies[k].description, <<>>)
  /\ \A w \in Workers :
        (w <= Len(args) /\ args[w].keyword = <<>>) =>
          /\ results[w] = <<>>
          /\ MatchLines(w) = <<>>
          /\ Len(Block(w)) >= 2 => HeaderLine(w).res_count = 0

\* A finished search for the empty keyword over a catalog in which some
\* description is not empty.
C8_Witness ==
  \E w \in Workers :
     /\ w <= Len(args)
     /\ args[w].keyword = <<>>
     /\ BlockClosed(w)
     /\ \E k \in DOMAIN g_movies : g_movies[k].description # <<>>

\* C9: a search without matches writes a block with Matches: 0 whose body
\* is the one line "(No matches found)"; that line is written only then;
\* the worker goes on as after any other search (it returns its permit and
\* ends), and a run in which every worker ended exits with status 0.
C9_ZeroMatchesReported ==
  /\ \A w \in Workers :
        /\ (Len(Block(w)) >= 5 /\ HeaderLine(w).res_count = 0) =>
              /\ Block(w)[5].kind = "nomatch"
              /\ Len(Block(w)) >= 6 => Block(w)[6].kind = "close"
        /\ \A k \in DOMAIN Block(w) :
              Block(w)[k].kind = "nomatch" =>
                /\ k = 5
                /\ HeaderLine(w).kind = "header"
                /\ HeaderLine(w).res_count = 0
                /\ MatchLines(w) = <<>>
                /\ pc[w] \in {"L109", "L110", "L140", "L141", "L142", "L144",
                              "Done"}
  /\ sem_state = "ready" => g_db_sem + Cardinality(Holders) = Capacity
  /\ (main_pc = "exited" /\ AllDone) => exit_status = 0

\* A worker whose keyword is not empty and matches nothing in a catalog
\* that is not empty has written its block, returned its permit and ended.
C9_Witness ==
  \E w \in Workers :
     /\ w <= Len(args)
     /\ args[w].keyword # <<>>
     /\ g_movies # <<>>
     /\ BlockClosed(w)
     /\ \E k \in DOMAIN Block(w) : Block(w)[k].kind = "nomatch"
     /\ pc[w] = "Done"
     /\ g_db_sem = Capacity

WaitingLines(w) ==
  SelectSeq(stdout, LAMBDA l : l.kind = "waiting" /\ l.worker_id = w)

\* C10: main destroys the semaphore and the mutex, and returns 0, only
\* when every worker has returned; by then it has started exactly one
\* worker for each keyword.
C10_TeardownAfterAllDone ==
  /\ (sem_state = "destroyed" \/ mutex_state = "destroyed") => AllDone
  /\ (main_pc = "exited" /\ exit_status = 0) =>
        /\ AllDone
        /\ sem_state = "destroyed" /\ mutex_state = "destroyed"
  /\ main_pc \in {"L224", "L228", "L229", "L231", "L232"} =>
        /\ Len(args) = N
        /\ \A i \in Workers : args[i] = WorkerArgs(i) /\ pc[i] # "NotCreated"
  /\ AllDone =>
        \A i \in Workers :
           /\ Len(WaitingLines(i)) = 1
           /\ WaitingLines(i)[1].keyword = keywords[i]

\* main has returned 0.
C10_Witness == main_pc = "exited" /\ exit_status = 0

\* A worker that has been granted a permit at some time.
HasAcquired(w) == HoldsPermit(w) \/ pc[w] = "Done"

\* C11: when an initialization step fails (sem_init, or pthread_create for
\* any worker) the process ends with a nonzero status before any search
\* has run: no worker has acquired a permit or written a line of a report.
C11_AllOrNothing ==
  (main_pc = "exited" /\ exit_status # 0) =>
     /\ \A w \in Workers : ~ HasAcquired(w)
     /\ \A k \in DOMAIN stdout : ~ IsBlockLine(stdout[k])

\* The text with every letter in lower case.
Fold(text) == [k \in DOMAIN text |-> tolower(text[k])]

\* needle is a run of consecutive characters of text.
Occurs(needle, text) ==
  \E a \in 1..(Len(text) - Len(needle) + 1) :
     SubSeq(text, a, a + Len(needle) - 1) = needle

\* Worker w has finished lines 74-89: results[w] is what it collected.
Searched(w) ==
  pc[w] \in {"L92", "L94", "L95", "L96", "L97", "L99", "L109", "L110", "L140",
             "L141", "L142", "L144", "Done"}

\* The 0-based catalog positions worker w collected.
Collected(w) == {results[w][k].idx : k \in DOMAIN results[w]}

\* C12: for a keyword that is not empty, a record matches exactly when the
\* case-folded keyword is a run of consecutive characters of its case-folded
\* description; title, director and release date play no part.
C12_MatchIsFoldedSubstring ==
  \A w \in Workers :
     (Searched(w) /\ args[w].keyword # <<>>) =>
        Collected(w) =
          {i - 1 : i \in {j \in DOMAIN g_movies :
                            Occurs(Fold(args[w].keyword),
                                   Fold(g_movies[j].description))}}

\* A finished search that collected a record whose description holds the
\* keyword in another case only, and left out a record whose title holds
\* the folded keyword.
C12_Witness ==
  \E w \in Workers :
     /\ Searched(w)
     /\ args[w].keyword # <<>>
     /\ \E i \in DOMAIN g_movies :
           /\ (i - 1) \in Collected(w)
           /\ ~ Occurs(args[w].keyword, g_movies[i].description)
     /\ \E i \in DOMAIN g_movies :
           /\ (i - 1) \notin Collected(w)
           /\ Occurs(Fold(args[w].keyword), Fold(g_movies[i].title))

\* The catalog positions (1-based) that match keyword, in catalog order.
Matching(movies, keyword) ==
  SelectSeq([i \in 1..Len(movies) |-> i],
            LAMBDA i : contains_keyword_ci(movies[i].description, keyword))

\* The first MAX_RESULTS of them.
FirstMatches(movies, keyword) ==
  LET all == Matching(movies, keyword)
  IN  SubSeq(all, 1, IF Len(all) < MAX_RESULTS THEN Len(all) ELSE MAX_RESULTS)

\* g_movies has MAX_MOVIES = MAX_RESULTS places, so no catalog of the
\* program has more matches than the result array holds.  The cut-off of
\* line 80 is put to work on the catalog repeated MAX_RESULTS + 1 times, in
\* which a record that matches does so more often than the array holds.
Crowded(movies) ==
  [i \in 1..((MAX_RESULTS + 1) * Len(movies)) |->
     movies[((i - 1) % Len(movies)) + 1]]

\* C13: a search collects min(MAX_RESULTS, number of matching records)
\* results, never more than MAX_RESULTS: the first matching records in
\* catalog order, later ones being dropped without an error; the header's
\* count is the number of body lines.
C13_CollectsFirstMatchesUpToCapacity ==
  \A w \in Workers :
     /\ Len(results[w]) <= MAX_RESULTS
     /\ Searched(w) =>
          LET first == FirstMatches(g_movies, args[w].keyword)
          IN  /\ Len(results[w]) = Len(first)
              /\ Collected(w) = {first[k] - 1 : k \in DOMAIN first}
     /\ BlockClosed(w) => HeaderLine(w).res_count = Len(MatchLines(w))
     /\ pc[w] = "L92" =>
          LET found == ScanFrom(Crowded(g_movies), args[w].keyword, 1, <<>>)
              first == FirstMatches(Crowded(g_movies), args[w].keyword)
          IN  /\ Len(found) <= MAX_RESULTS
              /\ [k \in DOMAIN found |-> found[k].idx + 1] = first

\* A search has just collected all the matches of its catalog, several of
\* them, and the same records repeated match more often than MAX_RESULTS.
C13_Witness ==
  \E w \in Workers :
     /\ pc[w] = "L92"
     /\ Len(results[w]) >= 2
     /\ Len(results[w]) < Len(g_movies)
     /\ Len(Matching(Crowded(g_movies), args[w].keyword)) > MAX_RESULTS

\* Where a worker calls pthread_mutex_lock.
LockLabels == {"L123", "L130", "L92", "L140"}

\* A worker that runs: created, not yet returned, in a process that lives.
Live(w) == Running /\ pc[w] \notin {"NotCreated", "Done"}

\* C14 as stated: a worker that is neither at sem_wait nor in the pacing
\* delay can take its next step, whatever the other workers do.
C14_OnlySemWaitAndDelaySuspend ==
  \A w \in Workers :
     (Live(w) /\ pc[w] \notin {"L128", "L135"}) => ENABLED search_worker(w)

\* C14 as amended: a worker that is neither at sem_wait, nor in the pacing
\* delay, nor at a pthread_mutex_lock of g_print_mutex can take its next
\* step, whatever the other workers do.
C14_SuspendsOnlyAtWaitDelayAndLock ==
  \A w \in Workers :
     (Live(w) /\ pc[w] \notin ({"L128", "L135"} \cup LockLabels))
        => ENABLED search_worker(w)

\* A worker is about to search while another worker holds the print mutex.
C14_Witness ==
  \E w, v \in Workers :
     /\ w # v
     /\ Running
     /\ pc[w] = "L138"
     /\ g_print_mutex = v

\* The places of a worker in the order of the code: Waiting is L123-L128,
\* Admitted L130-L132, Searching L135-L138, Reporting L92-L110, then the
\* finished line and sem_post, Done.
LabelOrder ==
  <<"NotCreated", "L123", "L124", "L125", "L128", "L130", "L131", "L132",
    "L135", "L138", "L92", "L94", "L95", "L96", "L97", "L99", "L109", "L110",
    "L140", "L141", "L142", "L144", "Done">>

Rank(label) == CHOOSE k \in DOMAIN LabelOrder : LabelOrder[k] = label

\* The lines a worker writes, in the order of the code.
KindOrder ==
  <<"waiting", "acquired", "open", "header", "sortedby", "dashes", "body",
    "close", "finished">>

KindRank(kind) ==
  CHOOSE k \in DOMAIN KindOrder :
     KindOrder[k] = (IF kind \in {"match", "nomatch"} THEN "body" ELSE kind)

\* The lines of worker w in stdout, in order.
LinesOf(w) == SelectSeq(stdout, LAMBDA l : l.by = w)

HasLine(w, kind) ==
  \E k \in DOMAIN stdout : stdout[k].by = w /\ stdout[k].kind = kind

\* The events of worker w so far are in the order of the claim.
EventsInOrder(w) ==
  /\ LET lines == LinesOf(w) IN
       /\ \A k \in 1..(Len(lines) - 1) :
             \/ KindRank(lines[k + 1].kind) = KindRank(lines[k].kind) + 1
             \/ lines[k].kind = "match" /\ lines[k + 1].kind = "match"
       /\ lines # <<>> => lines[1].kind = "waiting"
  /\ HasAcquired(w) <=> Rank(pc[w]) >= Rank("L130")
  /\ HasAcquired(w) => HasLine(w, "waiting")
  /\ HasLine(w, "acquired") => HasAcquired(w)
  /\ Searched(w) => HasLine(w, "acquired")
  /\ HasLine(w, "open") => Searched(w)
  /\ HasLine(w, "finished") => BlockClosed(w)
  /\ pc[w] = "Done" => HasLine(w, "finished")

\* C15: a worker goes through its places one after the other in the order
\* of the code, none skipped and none taken twice, so that its events are:
\* waiting line, permit acquired, acquired line, search, report block,
\* finished line, permit released.
C15_WorkerOrder ==
  /\ [][\A w \in Workers :
          pc'[w] # pc[w] => Rank(pc'[w]) = Rank(pc[w]) + 1]_vars
  /\ [](\A w \in Workers : EventsInOrder(w))

\* A worker has returned after writing all its lines, while the other
\* worker has written lines too.
C15_Witness ==
  \E w, v \in Workers :
     /\ w # v
     /\ pc[w] = "Done"
     /\ Len(LinesOf(w)) >= Len(KindOrder)
     /\ LinesOf(v) # <<>>

\* How many lines of this kind worker w has written.
CountLines(w, kind) ==
  Len(SelectSeq(stdout, LAMBDA l : l.by = w /\ l.kind = kind))

\* The steps of a worker, as far as it gets: it takes a permit at most
\* once and gives one back at most once, after it took it and while it
\* holds it; it returns only through that release; the semaphore changes
\* through these steps alone; and the block is written between the two.
ScopedAcquireReleaseSteps ==
  [][/\ \A w \in Workers :
          \* nothing is done twice
          /\ pc'[w] # pc[w] => Rank(pc'[w]) > Rank(pc[w])
          \* the acquire
          /\ (~ HasAcquired(w) /\ HasAcquired(w)') =>
                /\ pc[w] = "L128" /\ pc'[w] = "L130"
                /\ g_db_sem > 0 /\ g_db_sem' = g_db_sem - 1
          \* the release, on the only way out
          /\ (pc[w] # "Done" /\ pc'[w] = "Done") =>
                /\ HoldsPermit(w)
                /\ g_db_sem' = g_db_sem + 1
                /\ CountLines(w, "open") = 1 /\ CountLines(w, "close") = 1
          \* the block is written with the permit in hand
          /\ (Block(w)' # Block(w)) => (HoldsPermit(w) /\ HoldsPermit(w)')
     /\ (sem_state = "ready" /\ g_db_sem' # g_db_sem) =>
          \E w \in Workers :
             \/ pc[w] = "L128" /\ pc'[w] = "L130" /\ g_db_sem' = g_db_sem - 1
             \/ pc[w] = "L144" /\ pc'[w] = "Done" /\ g_db_sem' = g_db_sem + 1
    ]_vars

\* C16: in every execution each worker that was started performs exactly
\* one acquire and exactly one release and writes exactly one report block
\* between them: when the process has ended, every started worker has
\* returned through sem_post with one whole block in stdout.
C16_ExactlyOneAcquireAndRelease ==
  main_pc = "exited" =>
     \A w \in Workers :
        pc[w] # "NotCreated" =>
           /\ pc[w] = "Done"
           /\ CountLines(w, "open") = 1
           /\ CountLines(w, "close") = 1

\* The first n characters of text, all of it when it is shorter.
Take(text, n) == SubSeq(text, 1, IF Len(text) < n THEN Len(text) ELSE n)

\* C17: a keyword of more than MAX_KEYWORD_LEN - 1 characters is cut to
\* its first MAX_KEYWORD_LEN - 1, a description of more than
\* MAX_DESC_LEN - 1 characters to its first MAX_DESC_LEN - 1, and the match
\* is the substring test on the cut, case-folded texts; over-length input
\* is searched and reported like any other.
C17_OverlongInputIsTruncated ==
  /\ \A w \in Workers :
        /\ w <= Len(args) =>
              args[w].keyword = Take(keywords[w], MAX_KEYWORD_LEN - 1)
        /\ Searched(w) =>
              Collected(w) =
                {i - 1 : i \in {j \in DOMAIN g_movies :
                   /\ keywords[w] # <<>>
                   /\ Occurs(Fold(Take(keywords[w], MAX_KEYWORD_LEN - 1)),
                             Fold(Take(g_movies[j].description,
                                       MAX_DESC_LEN - 1)))}}
        /\ Len(Block(w)) >= 2 =>
              /\ HeaderLine(w).keyword = Take(keywords[w], MAX_KEYWORD_LEN - 1)
              /\ HeaderLine(w).res_count = Len(results[w])
  /\ (main_pc = "exited" /\ AllDone) => exit_status = 0

\* One finished search has an over-long keyword and collected a record
\* that only the cut keyword matches; another left out an over-long
\* description that holds its keyword beyond the cut.
C17_Witness ==
  \E w, v \in Workers :
     /\ Searched(w) /\ Searched(v)
     /\ Len(keywords[w]) > MAX_KEYWORD_LEN - 1
     /\ \E i \in DOMAIN g_movies :
           /\ (i - 1) \in Collected(w)
           /\ ~ Occurs(Fold(keywords[w]), Fold(g_movies[i].description))
     /\ \E i \in DOMAIN g_movies :
           /\ Len(g_movies[i].description) > MAX_DESC_LEN - 1
           /\ Occurs(Fold(keywords[v]), Fold(g_movies[i].description))
           /\ (i - 1) \notin Collected(v)

\* C18: between sem_init and sem_destroy the value of g_db_sem plus the
\* number of workers that have returned from sem_wait and not yet called
\* sem_post equals the capacity, and the value stays within 0..Capacity.
C18_PermitAccounting ==
  sem_state = "ready" =>
     /\ g_db_sem + Cardinality(Holders) = Capacity
     /\ g_db_sem \in 0..Capacity

\* Every permit is out again after one worker has already given its own
\* back.
C18_Witness ==
  /\ sem_state = "ready"
  /\ g_db_sem = 0
  /\ Cardinality(Holders) = Capacity
  /\ \E w \in Workers : pc[w] = "Done"

\* The places between a pthread_mutex_lock of g_print_mutex and its
\* pthread_mutex_unlock: the printf calls and the unlock itself.
CriticalLabels ==
  {"L124", "L125", "L131", "L132", "L94", "L95", "L96", "L97", "L99", "L109",
   "L110", "L141", "L142"}

\* C19: no worker is at sem_wait while it holds g_print_mutex; the holder
\* is between a lock and its unlock, where no step waits for anything, so
\* it can always take its next step; at most one worker is between a lock
\* and its unlock; and while the process runs and a started worker has
\* not returned, some worker can take a step.
C19_NoDeadlock ==
  /\ \A w \in Workers :
        /\ pc[w] = "L128" => g_print_mutex # w
        /\ g_print_mutex = w <=> pc[w] \in CriticalLabels
        /\ (Running /\ g_print_mutex = w) => ENABLED search_worker(w)
  /\ g_print_mutex \in Workers \cup {0}
  /\ Cardinality({w \in Workers : pc[w] \in CriticalLabels}) <= 1
  /\ (\E w \in Workers : Live(w)) => \E v \in Workers : ENABLED search_worker(v)

\* One worker waits in sem_wait with no permit left while another holds
\* the print mutex in the middle of its report.
C19_Witness ==
  \E w, v \in Workers :
     /\ Running
     /\ pc[w] = "L128"
     /\ g_db_sem = 0
     /\ g_print_mutex = v
     /\ pc[v] = "L95"

\* How many lines of this kind stdout holds, whoever wrote them.
CountKind(kind) == Len(SelectSeq(stdout, LAMBDA l : l.kind = kind))

\* C20: stdout grows by one line per printf, so its prefixes are the values
\* it takes in the reachable states.  In each of them the "Acquired DB
\* slot" lines outnumber the "Finished search" lines by 0 to Capacity; a
\* line of a worker's report block has that worker's Acquired line before
\* it and that worker's Finished line, if written, after it; and "All
\* searches finished." is the last line, after the Finished line of every
\* worker.
C20_OutputShowsAdmissionBound ==
  /\ CountKind("acquired") - CountKind("finished") \in 0..Capacity
  /\ \A w \in Workers :
        LET lines == LinesOf(w) IN
          \A k \in DOMAIN lines :
             /\ IsBlockLine(lines[k]) =>
                   \E j \in 1..(k - 1) : lines[j].kind = "acquired"
             /\ lines[k].kind = "finished" =>
                   /\ k = Len(lines)
                   /\ \E j \in 1..(k - 1) : lines[j].kind = "close"
  /\ \A k \in DOMAIN stdout :
        stdout[k].kind = "allfinished" =>
           /\ k = Len(stdout)
           /\ \A w \in Workers : CountLines(w, "finished") = 1

\* The whole output of a run: every worker's Acquired line, block and
\* Finished line, then the closing line of main; and along the way a
\* worker was admitted only after another had written its Finished line.
C20_Witness ==
  /\ stdout # <<>>
  /\ stdout[Len(stdout)].kind = "allfinished"
  /\ CountKind("acquired") = N
  /\ CountKind("close") = N
  /\ \E j, k \in DOMAIN stdout :
        /\ j < k
        /\ stdout[j].kind = "finished"
        /\ stdout[k].kind = "acquired"

====
